---------------------------- MODULE Spec2Model ----------------------------
(***************************************************************************)
(* A model of the two scripts of the repository:                           *)
(*   - datasets/cubes/__init__.py: download_and_prepare and load_dataset   *)
(*     (the dataset importer), over a small file system;                   *)
(*   - getting-started-coffee/training_notes.py: the training tutorial,    *)
(*     one action per top-level statement.                                 *)
(* Python strings that the code inspects character by character (file      *)
(* names, paths, the needles of `in` and `endswith`) are sequences of      *)
(* one-character strings; strings the code only passes around (labels,     *)
(* field names) are TLA+ strings.                                          *)
(***************************************************************************)
EXTENDS Integers, Sequences, FiniteSets, TLC

----------------------------------------------------------------------------
(* Bounds of the model *)

\* at most this many calls of download_and_prepare / load_dataset in a run
MaxCalls == 2
\* at most this many entries in dataset_dir in the initial file system
MaxEntries == 2
\* at most this many outputs in all the batches trainer.predict returns
MaxOutputs == 3

----------------------------------------------------------------------------
(* String helpers: Python's str.endswith, `in`, os.path.join *)

\* the literal "abnormal" used as the needle of `in` (line 53)
ABNORMAL == <<"a", "b", "n", "o", "r", "m", "a", "l">>
NORMAL == <<"n", "o", "r", "m", "a", "l">>
\* the literals of the two endswith tests (line 51)
DOT_JPG == <<".", "j", "p", "g">>
DOT_PNG == <<".", "p", "n", "g">>

\* s.endswith(suf)
EndsWith(s, suf) ==
    /\ Len(s) >= Len(suf)
    /\ SubSeq(s, Len(s) - Len(suf) + 1, Len(s)) = suf

\* s.startswith(pre)
StartsWith(s, pre) ==
    /\ Len(s) >= Len(pre)
    /\ SubSeq(s, 1, Len(pre)) = pre

\* `needle in s`: a left-to-right scan for the first match
RECURSIVE FindFrom(_, _, _)
FindFrom(s, needle, i) ==
    IF i + Len(needle) - 1 > Len(s) THEN 0
    ELSE IF SubSeq(s, i, i + Len(needle) - 1) = needle THEN i
    ELSE FindFrom(s, needle, i + 1)

Contains(s, needle) == FindFrom(s, needle, 1) # 0

\* os.path.join(a, b) on POSIX
PathJoin(a, b) ==
    IF StartsWith(b, <<"/">>) THEN b
    ELSE IF a = <<>> \/ EndsWith(a, <<"/">>) THEN a \o b
    ELSE a \o <<"/">> \o b

----------------------------------------------------------------------------
(* Inputs: the names a directory entry can have, the splits, the dirs *)

DOT_TXT == <<".", "t", "x", "t">>
\* "abnormal.jpg", "normal.png", "x.jpg" (neither word), "abnormal.txt"
Names ==
    { ABNORMAL \o DOT_JPG, NORMAL \o DOT_PNG, <<"x">> \o DOT_JPG, ABNORMAL \o DOT_TXT }

\* what a subdirectory of dataset_dir holds initially: "abnormal.png"
SubContents == { {ABNORMAL \o DOT_PNG} }

\* the dataset_dir argument: a directory named "abnormal"
DatasetDirs == { ABNORMAL }

\* the optional split argument: None, "", or a name
NoSplit == [given |-> FALSE, value |-> <<>>]
Splits ==
    { NoSplit, [given |-> TRUE, value |-> <<>>] }
    \cup { [given |-> TRUE, value |-> v] : v \in { <<"t">>, <<"x">> \o DOT_JPG } }

\* Python truthiness of the split argument (`if split:`)
Truthy(split) == split.given /\ split.value # <<>>

Kinds == {"file", "dir"}

----------------------------------------------------------------------------
(* State *)

VARIABLES
    \* --- the dataset importer ---
    dataset_dir,   \* the dataset_dir argument (the same in every call of a run)
    rootKind,      \* what dataset_dir is on disk: "absent", "file" or "dir"
    root,          \* the entries of dataset_dir: name -> "file" | "dir"
    order,         \* the names of root in directory order (what os.listdir returns)
    sub,           \* the entries of each subdirectory of dataset_dir
    dataset,       \* the samples of the FiftyOne dataset, in insertion order
    addCalls,      \* the argument of every dataset.add_samples call so far
    calls,         \* number of calls made so far
    last,          \* the last call: its arguments and how it ended
    \* --- the training tutorial ---
    pc,            \* the statement the script runs next
    steps,         \* the library calls made so far, in order
    ds,            \* `dataset`: the samples loaded by fo.Dataset.from_dir
    predict_dataset, \* `predict_dataset`: the file paths of dataset.take(5)
    batches,       \* what trainer.predict returned
    predictions,   \* the script's variable `predictions`
    checkpoint,    \* whether the checkpoint file has been written
    session        \* <<view>> once fo.launch_app(view) has run, <<>> before

importerVars == <<dataset_dir, rootKind, root, order, sub, dataset, addCalls, calls,
                  last>>
tutorialVars == <<pc, steps, ds, predict_dataset, batches, predictions,
                  checkpoint, session>>
vars == <<importerVars, tutorialVars>>

EmptyFn == [x \in {} |-> x]

\* the sequences that list every element of S once
Orders(S) ==
    { l \in [1..Cardinality(S) -> S] : \A i, j \in DOMAIN l : l[i] = l[j] => i = j }

----------------------------------------------------------------------------
(* datasets/cubes/__init__.py *)

\* fo.types.ImageClassificationDirectoryTree (line 29)
dataset_type == "ImageClassificationDirectoryTree"
\* line 32
num_samples == 188
\* line 35
classes == <<"abnormal", "normal">>

\* the name below dataset_dir that `path` denotes
EntryOf(path) ==
    CHOOSE n \in Names \cup { s.value : s \in Splits } :
        n # <<>> /\ PathJoin(dataset_dir, n) = path

\* (mutant) os.makedirs(path) without exist_ok=True
MakedirsErrorNoExistOk(path) ==
    IF path = dataset_dir
    THEN IF rootKind # "absent" THEN "FileExistsError" ELSE "None"
    ELSE IF rootKind = "file" THEN "NotADirectoryError"
    ELSE IF rootKind = "dir" /\ EntryOf(path) \in DOMAIN root THEN "FileExistsError"
    ELSE "None"

\* os.makedirs(path, exist_ok=True): the exception it raises, or "None"
MakedirsError(path) ==
    IF path = dataset_dir
    THEN IF rootKind = "file" THEN "FileExistsError" ELSE "None"
    ELSE IF rootKind = "file" THEN "NotADirectoryError"
    ELSE IF /\ rootKind = "dir"
            /\ EntryOf(path) \in DOMAIN root
            /\ root[EntryOf(path)] = "file" THEN "FileExistsError"
    ELSE "None"

\* the entries of dataset_dir after a successful os.makedirs(path, exist_ok=True)
MakedirsRoot(path) ==
    IF path = dataset_dir THEN root
    ELSE [n \in DOMAIN root \cup {EntryOf(path)} |->
             IF n \in DOMAIN root THEN root[n] ELSE "dir"]

\* the directory order afterwards: a created entry lands at position pos + 1
MakedirsOrder(path, pos) ==
    IF path = dataset_dir \/ EntryOf(path) \in DOMAIN root THEN order
    ELSE SubSeq(order, 1, pos) \o <<EntryOf(path)>> \o SubSeq(order, pos + 1, Len(order))

MakedirsSub(path) ==
    IF path = dataset_dir THEN sub
    ELSE [n \in DOMAIN sub \cup {EntryOf(path)} |->
             IF n \in DOMAIN sub THEN sub[n] ELSE {}]

\* lines 20-23
dataset_path(split) ==
    IF Truthy(split) THEN PathJoin(dataset_dir, split.value) ELSE dataset_dir

\* lines 12-37; pos: where the directory order puts an entry makedirs creates
download_and_prepare(split, pos) ==
    /\ calls < MaxCalls
    /\ calls' = calls + 1
    /\ LET err == MakedirsError(dataset_path(split)) IN
       IF err # "None"
       THEN /\ last' = [op |-> "download_and_prepare", split |-> split,
                        status |-> "raised", exc |-> err, ret |-> <<>>]
            /\ UNCHANGED <<rootKind, root, order, sub>>
       ELSE /\ rootKind' = "dir"
            /\ root' = MakedirsRoot(dataset_path(split))
            /\ order' = MakedirsOrder(dataset_path(split), pos)
            /\ sub' = MakedirsSub(dataset_path(split))
            /\ last' = [op |-> "download_and_prepare", split |-> split,
                        status |-> "returned", exc |-> "None",
                        ret |-> <<dataset_type, num_samples, classes>>]
    /\ UNCHANGED <<dataset_dir, dataset, addCalls, tutorialVars>>

\* line 51
IsImageName(img_path) == EndsWith(img_path, DOT_JPG) \/ EndsWith(img_path, DOT_PNG)

\* (mutant) the two words tested the other way round
LabelNormalFirst(img_path) ==
    IF Contains(img_path, NORMAL) THEN "normal" ELSE "abnormal"

\* (mutant) a label that is not one of the declared classes
LabelAnomaly(img_path) ==
    IF Contains(img_path, ABNORMAL) THEN "anomaly" ELSE "normal"

\* line 53
Label(img_path) == IF Contains(img_path, ABNORMAL) THEN "abnormal" ELSE "normal"

\* lines 52-55
MakeSample(img_path) ==
    [filepath |-> PathJoin(dataset_dir, img_path),
     ground_truth |-> [label |-> Label(img_path)]]

\* lines 49-56: the list `samples` built from the listing, in listing order
RECURSIVE BuildSamples(_)
BuildSamples(listing) ==
    IF listing = <<>> THEN <<>>
    ELSE LET rest == BuildSamples(SubSeq(listing, 1, Len(listing) - 1))
             img_path == listing[Len(listing)]
         IN  IF IsImageName(img_path) THEN Append(rest, MakeSample(img_path))
             ELSE rest

\* os.listdir(dataset_dir): the entries' names, in the directory's order. The
\* order is arbitrary (any order initially, a new entry anywhere) and stays
\* the same while the directory is unchanged.
listdir == order

\* os.listdir(dataset_dir): the exception it raises, or "None"
ListdirError ==
    CASE rootKind = "absent" -> "FileNotFoundError"
      [] rootKind = "file" -> "NotADirectoryError"
      [] OTHER -> "None"

LoadRaised(split, err) ==
    /\ last' = [op |-> "load_dataset", split |-> split, status |-> "raised",
                exc |-> err, ret |-> <<>>]
    /\ UNCHANGED <<dataset, addCalls>>

\* (mutant) dataset.add_samples([sample]) inside the loop instead of one bulk
\* call after it
load_dataset_incremental(split, failAt) ==
    /\ calls < MaxCalls
    /\ calls' = calls + 1
    /\ IF ListdirError # "None" THEN LoadRaised(split, ListdirError)
       ELSE LET samples == BuildSamples(listdir)
                made == IF failAt = 0 THEN samples ELSE SubSeq(samples, 1, failAt - 1)
            IN  /\ dataset' = dataset \o made
                /\ addCalls' = addCalls \o [i \in DOMAIN made |-> <<made[i]>>]
                /\ last' = [op |-> "load_dataset", split |-> split,
                            status |-> IF failAt = 0 THEN "returned" ELSE "raised",
                            exc |-> IF failAt = 0 THEN "None" ELSE "LibraryError",
                            ret |-> <<>>]
    /\ UNCHANGED <<dataset_dir, rootKind, root, order, sub, tutorialVars>>

\* lines 40-59; failAt = k > 0: the library raises while the k-th sample is made
load_dataset(split, failAt) ==
    /\ calls < MaxCalls
    /\ calls' = calls + 1
    /\ IF ListdirError # "None" THEN LoadRaised(split, ListdirError)
       ELSE LET samples == BuildSamples(listdir) IN
            IF failAt \in 1..Len(samples) THEN LoadRaised(split, "LibraryError")
            ELSE /\ dataset' = dataset \o samples
                 /\ addCalls' = Append(addCalls, samples)
                 /\ last' = [op |-> "load_dataset", split |-> split,
                             status |-> "returned", exc |-> "None", ret |-> <<>>]
    /\ UNCHANGED <<dataset_dir, rootKind, root, order, sub, tutorialVars>>

----------------------------------------------------------------------------
(* getting-started-coffee/training_notes.py *)

\* the image files under /tmp/carla_data/CameraRGB, and what a prediction can be
FilePaths == {"img1.png", "img2.png"}
Preds == {"seg_a", "seg_b"}

\* dataset.take(5) (line 30)
TakeSize == 5
\* batch_size=4 (line 41)
batch_size == 4

Min(a, b) == IF a < b THEN a ELSE b

\* the samples fo.Dataset.from_dir can load: distinct file paths, shuffled
Datasets ==
    { [i \in DOMAIN l |-> [filepath |-> l[i], ground_truth |-> "mask",
                           flash_predictions |-> "None"]] :
        l \in UNION { Orders(S) : S \in SUBSET FilePaths } }

\* dataset.take(n): the file paths of n randomly chosen samples (all when fewer)
Take(samples, n) ==
    { S \in SUBSET { samples[i].filepath : i \in DOMAIN samples } :
        Cardinality(S) = Min(n, Len(samples)) }

SeqsUpTo(S, lo, hi) == UNION { [1..n -> S] : n \in lo..hi }

\* the ways to cut the list `flat` into batches of 1 to batch_size elements
RECURSIVE Batchings(_)
Batchings(flat) ==
    IF flat = <<>> THEN { <<>> }
    ELSE UNION { { <<SubSeq(flat, 1, k)>> \o rest :
                     rest \in Batchings(SubSeq(flat, k + 1, Len(flat))) } :
                 k \in 1..Min(batch_size, Len(flat)) }

\* what trainer.predict can return for the predict dataset `paths`: batches of
\* at most batch_size outputs, each output a dict with "filepath" and "predictions"
PredictOutputs(paths) ==
    UNION { Batchings(flat) :
              flat \in SeqsUpTo([filepath : paths, predictions : Preds], 0, MaxOutputs) }

\* list(chain.from_iterable(batches)) (line 68)
RECURSIVE Flatten(_)
Flatten(bs) == IF bs = <<>> THEN <<>> ELSE Head(bs) \o Flatten(Tail(bs))

\* (mutant) a key keeps the first value stored under it
RECURSIVE DictOfFirst(_)
DictOfFirst(outputs) ==
    IF outputs = <<>> THEN EmptyFn
    ELSE LET d == DictOfFirst(SubSeq(outputs, 1, Len(outputs) - 1))
             p == outputs[Len(outputs)]
         IN  [k \in DOMAIN d \cup {p.filepath} |->
                 IF k \in DOMAIN d THEN d[k] ELSE p.predictions]

\* {p["filepath"]: p["predictions"] for p in outputs} (line 71): the items are
\* stored one after the other, a later one replacing an earlier one with its key
RECURSIVE DictOf(_)
DictOf(outputs) ==
    IF outputs = <<>> THEN EmptyFn
    ELSE LET d == DictOf(SubSeq(outputs, 1, Len(outputs) - 1))
             p == outputs[Len(outputs)]
         IN  [k \in DOMAIN d \cup {p.filepath} |->
                 IF k = p.filepath THEN p.predictions ELSE d[k]]

\* dataset.set_values(field, values, key_field=key_field) (lines 74-76)
SetValues(samples, field, values, key_field) ==
    [i \in DOMAIN samples |->
        IF samples[i][key_field] \in DOMAIN values
        THEN [samples[i] EXCEPT ![field] = values[samples[i][key_field]]]
        ELSE samples[i]]

\* statement `stmt` runs and the script moves on to `next`
Runs(stmt, next) ==
    /\ pc = stmt
    /\ pc' = next
    /\ steps' = Append(steps, stmt)

\* statement `stmt` raises: the script ends there
Raises(stmt) ==
    /\ pc = stmt
    /\ pc' = "raised"
    /\ UNCHANGED <<steps, ds, predict_dataset, batches, predictions, checkpoint,
                   session, importerVars>>

\* lines 15-18
download_data ==
    \/ /\ Runs("download_data", "from_dir")
       /\ UNCHANGED <<ds, predict_dataset, batches, predictions, checkpoint, session,
                      importerVars>>
    \/ Raises("download_data")

\* lines 20-27
from_dir ==
    \/ /\ Runs("from_dir", "take")
       /\ ds' \in Datasets
       /\ UNCHANGED <<predict_dataset, batches, predictions, checkpoint, session,
                      importerVars>>
    \/ Raises("from_dir")

\* line 30
take ==
    /\ Runs("take", "from_fiftyone")
    /\ predict_dataset' \in Take(ds, TakeSize)
    /\ UNCHANGED <<ds, batches, predictions, checkpoint, session, importerVars>>

\* lines 33-42
from_fiftyone ==
    \/ /\ Runs("from_fiftyone", "SemanticSegmentation")
       /\ UNCHANGED <<ds, predict_dataset, batches, predictions, checkpoint, session,
                      importerVars>>
    \/ Raises("from_fiftyone")

\* lines 45-49
SemanticSegmentation ==
    \/ /\ Runs("SemanticSegmentation", "Trainer")
       /\ UNCHANGED <<ds, predict_dataset, batches, predictions, checkpoint, session,
                      importerVars>>
    \/ Raises("SemanticSegmentation")

\* lines 52-54
Trainer ==
    \/ /\ Runs("Trainer", "finetune")
       /\ UNCHANGED <<ds, predict_dataset, batches, predictions, checkpoint, session,
                      importerVars>>
    \/ Raises("Trainer")

\* line 57
finetune ==
    \/ /\ Runs("finetune", "save_checkpoint")
       /\ UNCHANGED <<ds, predict_dataset, batches, predictions, checkpoint, session,
                      importerVars>>
    \/ Raises("finetune")

\* (mutant) the checkpoint is saved before the fine-tuning statement
save_checkpoint_early ==
    /\ pc = "finetune"
    /\ ~checkpoint
    /\ checkpoint' = TRUE
    /\ steps' = Append(steps, "save_checkpoint")
    /\ UNCHANGED <<pc, ds, predict_dataset, batches, predictions, session, importerVars>>

\* line 60
save_checkpoint ==
    \/ /\ Runs("save_checkpoint", "predict")
       /\ checkpoint' = TRUE
       /\ UNCHANGED <<ds, predict_dataset, batches, predictions, session, importerVars>>
    \/ Raises("save_checkpoint")

\* lines 63-67
predict ==
    \/ /\ Runs("predict", "flatten")
       /\ batches' \in PredictOutputs(predict_dataset)
       /\ predictions' = batches'
       /\ UNCHANGED <<ds, predict_dataset, checkpoint, session, importerVars>>
    \/ Raises("predict")

\* line 68
flatten ==
    /\ Runs("flatten", "map")
    /\ predictions' = Flatten(predictions)
    /\ UNCHANGED <<ds, predict_dataset, batches, checkpoint, session, importerVars>>

\* line 71
map ==
    /\ Runs("map", "set_values")
    /\ predictions' = DictOf(predictions)
    /\ UNCHANGED <<ds, predict_dataset, batches, checkpoint, session, importerVars>>

\* lines 74-76
set_values ==
    \/ /\ Runs("set_values", "launch_app")
       /\ ds' = SetValues(ds, "flash_predictions", predictions, "filepath")
       /\ UNCHANGED <<predict_dataset, batches, predictions, checkpoint, session,
                      importerVars>>
    \/ Raises("set_values")

\* line 79
launch_app ==
    \/ /\ Runs("launch_app", "end")
       /\ session' = <<predict_dataset>>
       /\ UNCHANGED <<ds, predict_dataset, batches, predictions, checkpoint,
                      importerVars>>
    \/ Raises("launch_app")

----------------------------------------------------------------------------
(* Initial states *)

RootChoices ==
    UNION { [S -> Kinds] : S \in { T \in SUBSET Names : Cardinality(T) <= MaxEntries } }

NoCall == [op |-> "none", split |-> NoSplit, status |-> "none", exc |-> "None",
           ret |-> <<>>]

TutorialInit ==
    /\ pc = "download_data"
    /\ steps = <<>>
    /\ ds = <<>>
    /\ predict_dataset = {}
    /\ batches = <<>>
    /\ predictions = <<>>
    /\ checkpoint = FALSE
    /\ session = <<>>

ImporterInit ==
    /\ dataset_dir \in DatasetDirs
    /\ rootKind \in {"absent", "file", "dir"}
    /\ root \in (IF rootKind = "dir" THEN RootChoices ELSE {EmptyFn})
    /\ order \in Orders(DOMAIN root)
    /\ sub \in [{n \in DOMAIN root : root[n] = "dir"} -> SubContents]
    /\ dataset = <<>>
    /\ addCalls = <<>>
    /\ calls = 0
    /\ last = NoCall

\* the importer before any call, on a machine where dataset_dir does not exist
ImporterIdle ==
    /\ dataset_dir = ABNORMAL
    /\ rootKind = "absent"
    /\ root = EmptyFn
    /\ order = <<>>
    /\ sub = EmptyFn
    /\ dataset = <<>>
    /\ addCalls = <<>>
    /\ calls = 0
    /\ last = NoCall

\* the importer's functions, called in any order on any file system
Init == ImporterInit /\ TutorialInit

Next ==
    \/ \E split \in Splits : \E pos \in 0..Len(order) :
         download_and_prepare(split, pos)
    \/ \E split \in Splits : \E failAt \in 0..Len(BuildSamples(listdir)) :
         load_dataset(split, failAt)

Spec == Init /\ [][Next]_vars

\* the tutorial script, run once from its first statement
TutorialStart == ImporterIdle /\ TutorialInit

TutorialNext ==
    \/ download_data
    \/ from_dir
    \/ take
    \/ from_fiftyone
    \/ SemanticSegmentation
    \/ Trainer
    \/ finetune
    \/ save_checkpoint
    \/ predict
    \/ flatten
    \/ map
    \/ set_values
    \/ launch_app

TutorialSpec == TutorialStart /\ [][TutorialNext]_vars

----------------------------------------------------------------------------
(* Properties of the dataset importer *)

Range(f) == { f[i] : i \in DOMAIN f }

\* `name` has the word "abnormal" somewhere in it
HasAbnormal(name) ==
    \E k \in 1..(Len(name) - 7) :
        /\ name[k] = "a" /\ name[k + 1] = "b" /\ name[k + 2] = "n" /\ name[k + 3] = "o"
        /\ name[k + 4] = "r" /\ name[k + 5] = "m" /\ name[k + 6] = "a" /\ name[k + 7] = "l"

\* `name` ends in ".jpg" or ".png"
HasImageExt(name) ==
    /\ Len(name) >= 4
    /\ LET e == [i \in 1..4 |-> name[Len(name) - 4 + i]]
       IN  e = <<".", "j", "p", "g">> \/ e = <<".", "p", "n", "g">>

\* dataset_dir/name as a string
Below(dir, name) == dir \o <<"/">> \o name

\* the entries of dataset_dir that are files and have an image name
QualifyingFiles == { n \in DOMAIN root : root[n] = "file" /\ HasImageExt(n) }

\* how many samples of `samples` have the file path `path`
Occurrences(samples, path) ==
    Cardinality({ i \in DOMAIN samples : samples[i].filepath = path })

\* the samples the last add_samples call was given
LastAdded == IF addCalls = <<>> THEN <<>> ELSE addCalls[Len(addCalls)]

LoadReturned == last.op = "load_dataset" /\ last.status = "returned"

\* C1: every sample of the dataset comes from an entry of dataset_dir, and its
\* label is "abnormal" when the entry's name (not the path) contains "abnormal"
\* and "normal" otherwise
C1_LabelBySubstring ==
    \A i \in DOMAIN dataset :
        \E n \in DOMAIN root :
            /\ dataset[i].filepath = Below(dataset_dir, n)
            /\ dataset[i].ground_truth.label =
                 IF HasAbnormal(n) THEN "abnormal" ELSE "normal"

\* C1 witness: an "abnormal" sample and a "normal" sample whose name holds
\* neither word ("x.jpg"), below a dataset_dir that is itself named "abnormal"
C1_Witness ==
    /\ HasAbnormal(dataset_dir)
    /\ \E i, j \in DOMAIN dataset :
        /\ dataset[i].ground_truth.label = "abnormal"
        /\ dataset[j].filepath = Below(dataset_dir, <<"x", ".", "j", "p", "g">>)
        /\ dataset[j].ground_truth.label = "normal"

\* C2 (as claimed): every sample comes from an entry of dataset_dir that is a
\* file and whose name ends in ".jpg" or ".png"
C2_OnlyImageFiles ==
    \A i \in DOMAIN dataset :
        \E n \in QualifyingFiles : dataset[i].filepath = Below(dataset_dir, n)

\* C3 (as claimed): after one call of load_dataset on the empty dataset,
\* add_samples was given one sample per qualifying file and no other
C3_CountEqualsQualifyingFiles ==
    (calls = 1 /\ LoadReturned) =>
        /\ Len(addCalls) = 1
        /\ Len(addCalls[1]) = Cardinality(QualifyingFiles)
        /\ \A n \in QualifyingFiles :
             Occurrences(addCalls[1], Below(dataset_dir, n)) = 1

\* C4 (as claimed): a load_dataset call with a split enumerates the directory
\* dataset_dir/split, and its samples' paths are below that directory (stated
\* for the file systems in which no directory has an image name)
C4_HonoursSplit ==
    (/\ LoadReturned /\ Truthy(last.split) /\ last.split.value \in DOMAIN sub
     /\ \A n \in DOMAIN sub : ~HasImageExt(n)) =>
        { LastAdded[i].filepath : i \in DOMAIN LastAdded } =
            { Below(Below(dataset_dir, last.split.value), n) :
                n \in { m \in sub[last.split.value] : HasImageExt(m) } }

\* C5: a load_dataset call that raises leaves the dataset as it was and has
\* not called add_samples
C5_RaiseLeavesDataset ==
    [][ (calls' = calls + 1 /\ last'.op = "load_dataset" /\ last'.status = "raised")
          => (dataset' = dataset /\ addCalls' = addCalls) ]_vars

\* C5 witness: a second call raised while a sample was made, after a first
\* call had inserted two samples
C5_Witness ==
    /\ last.op = "load_dataset"
    /\ last.status = "raised"
    /\ last.exc = "LibraryError"
    /\ Len(addCalls) = 1
    /\ Len(dataset) = 2

\* C7 (as claimed): after n calls of load_dataset on an unchanged directory,
\* add_samples was called n times, every qualifying file was passed n times
\* and the dataset holds n times the number of qualifying files
C7_NTimesQualifyingFiles ==
    (calls = Len(addCalls)) =>
        /\ Len(dataset) = calls * Cardinality(QualifyingFiles)
        /\ \A n \in QualifyingFiles :
             Occurrences(dataset, Below(dataset_dir, n)) = calls

\* C9: the label of every sample is one of the classes download_and_prepare
\* returns, "abnormal" or "normal"
C9_LabelsAreClasses ==
    \A i \in DOMAIN dataset :
        /\ dataset[i].ground_truth.label \in {"abnormal", "normal"}
        /\ (last.op = "download_and_prepare" /\ last.status = "returned")
             => dataset[i].ground_truth.label \in Range(last.ret[3])

\* C9 witness: download_and_prepare returned its classes after load_dataset
\* had inserted a sample of each class
C9_Witness ==
    /\ last.op = "download_and_prepare"
    /\ last.status = "returned"
    /\ \E i, j \in DOMAIN dataset :
        /\ dataset[i].ground_truth.label = "abnormal"
        /\ dataset[j].ground_truth.label = "normal"

\* the directory download_and_prepare(split) prepares, as an entry of
\* dataset_dir (<<>>: dataset_dir itself)
Target(split) == IF split.given THEN split.value ELSE <<>>

\* that directory exists in the file system (kind, entries)
IsDirIn(kind, entries, split) ==
    /\ kind = "dir"
    /\ Target(split) # <<>> =>
         (Target(split) \in DOMAIN entries /\ entries[Target(split)] = "dir")

\* dataset_dir or the entry to prepare exists and is not a directory
TargetIsNoDirectory(split) ==
    \/ rootKind = "file"
    \/ /\ rootKind = "dir"
       /\ Target(split) \in DOMAIN root
       /\ root[Target(split)] = "file"

\* C10 (as claimed): every download_and_prepare call returns the triple
\* (ImageClassificationDirectoryTree, 188, ["abnormal", "normal"]) and the
\* directory it prepares exists afterwards
C10_AlwaysReturnsTriple ==
    (last.op = "download_and_prepare") =>
        /\ last.status = "returned"
        /\ last.ret = <<"ImageClassificationDirectoryTree", 188, <<"abnormal", "normal">>>>
        /\ IsDirIn(rootKind, root, last.split)

\* C10 (amended): a download_and_prepare call raises and changes nothing when
\* dataset_dir or dataset_dir/split exists and is not a directory; otherwise it
\* returns the triple, the directory exists afterwards, every entry that
\* existed is unchanged, at most the prepared directory is new (and empty), and
\* the dataset is untouched
C10_ReturnsTripleOrRaises ==
    [][ (calls' = calls + 1 /\ last'.op = "download_and_prepare") =>
          IF TargetIsNoDirectory(last'.split)
          THEN /\ last'.status = "raised"
               /\ UNCHANGED <<rootKind, root, order, sub, dataset, addCalls>>
          ELSE /\ last'.status = "returned"
               /\ last'.ret =
                    <<"ImageClassificationDirectoryTree", 188, <<"abnormal", "normal">>>>
               /\ IsDirIn(rootKind', root', last'.split)
               /\ \A n \in DOMAIN root : n \in DOMAIN root' /\ root'[n] = root[n]
               /\ \A n \in DOMAIN sub : n \in DOMAIN sub' /\ sub'[n] = sub[n]
               /\ DOMAIN root' \subseteq DOMAIN root \cup {Target(last'.split)}
               /\ \A n \in DOMAIN sub' \ DOMAIN sub : sub'[n] = {}
               /\ SelectSeq(order', LAMBDA n : n \in DOMAIN root) = order
               /\ Range(order') = DOMAIN root'
               /\ UNCHANGED <<dataset, addCalls, dataset_dir>> ]_vars

\* C10 witness: download_and_prepare returned after creating the split's
\* directory beside an entry that was already there
C10_Witness ==
    /\ last.op = "download_and_prepare"
    /\ last.status = "returned"
    /\ Truthy(last.split)
    /\ last.split.value \in DOMAIN sub
    /\ sub[last.split.value] = {}
    /\ Cardinality(DOMAIN root) >= 2

----------------------------------------------------------------------------
(* Properties of the training tutorial *)

\* the ten steps of the tutorial, in the order the tutorial announces them
MainSteps ==
    <<"download_data", "from_dir", "from_fiftyone", "SemanticSegmentation", "Trainer",
      "finetune", "save_checkpoint", "predict", "set_values", "launch_app">>

IsMainStep(s) == s \in Range(MainSteps)

Ran(stmt) == stmt \in Range(steps)

\* C6: the steps that have run are the first ones of the fixed order, each
\* once; the checkpoint is saved only after fine-tuning, prediction runs only
\* after the checkpoint is saved, and the app is launched only after the
\* predictions are stored
C6_FixedOrder ==
    /\ LET done == SelectSeq(steps, IsMainStep)
       IN  Len(done) <= Len(MainSteps) /\ done = SubSeq(MainSteps, 1, Len(done))
    /\ checkpoint => Ran("finetune")
    /\ Ran("save_checkpoint") <=> checkpoint
    /\ Ran("predict") => checkpoint
    /\ session # <<>> <=> Ran("launch_app")
    /\ Ran("launch_app") => Ran("set_values")

\* C6 witness: the script has run to its end
C6_Witness ==
    /\ pc = "end"
    /\ session # <<>>
    /\ Len(SelectSeq(steps, IsMainStep)) = 10

\* (b, i) comes before (c, j) in flattened batch order
Before(b, i, c, j) == b < c \/ (b = c /\ i < j)

\* the positions <<batch, index>> of the outputs trainer.predict returned
Outputs == UNION { { <<b, i>> : i \in DOMAIN batches[b] } : b \in DOMAIN batches }

OutputAt(p) == batches[p[1]][p[2]]

\* C8: once the mapping is built, its keys are the file paths of the outputs
\* and each key holds the prediction of the last output with that file path; the
\* keyed update changes, in the samples whose file path is a key, the field
\* "flash_predictions" and nothing else
C8_PredictionMapping ==
    /\ [](Ran("map") =>
            /\ DOMAIN predictions = { OutputAt(p).filepath : p \in Outputs }
            /\ \A p \in Outputs :
                 (\A q \in Outputs :
                     Before(p[1], p[2], q[1], q[2])
                       => OutputAt(q).filepath # OutputAt(p).filepath)
                 => predictions[OutputAt(p).filepath] = OutputAt(p).predictions)
    /\ [][ (pc = "set_values" /\ pc' = "launch_app") =>
             /\ DOMAIN ds' = DOMAIN ds
             /\ \A i \in DOMAIN ds :
                  /\ ds'[i].filepath = ds[i].filepath
                  /\ ds'[i].ground_truth = ds[i].ground_truth
                  /\ ds'[i].flash_predictions =
                       IF ds[i].filepath \in DOMAIN predictions
                       THEN predictions[ds[i].filepath]
                       ELSE ds[i].flash_predictions ]_vars

\* C8 witness: two outputs of different batches shared a file path and had
\* different predictions, and the later one is now on the sample
C8_Witness ==
    /\ Ran("set_values")
    /\ \E p, q \in Outputs :
         /\ p[1] < q[1]
         /\ OutputAt(p).filepath = OutputAt(q).filepath
         /\ OutputAt(p).predictions # OutputAt(q).predictions
         /\ \A r \in Outputs : ~Before(q[1], q[2], r[1], r[2])
         /\ \E i \in DOMAIN ds :
              /\ ds[i].filepath = OutputAt(q).filepath
              /\ ds[i].flash_predictions = OutputAt(q).predictions

============================================================================
